---- MODULE Spec2Model ----
(***************************************************************************)
(* steamclipconverter (src/src/main.rs): the clip directory scanner, the   *)
(* app-name resolver, the per-clip conversion loop of main and the         *)
(* cascading cleanup, as a state machine over a small filesystem.          *)
(*                                                                         *)
(* A path is a sequence of component names relative to the input          *)
(* directory (<< >> is the input directory itself).  A name is a string;   *)
(* Chars(name) gives its characters, on which the regular expressions and  *)
(* the integer parse of the source are computed.                           *)
(***************************************************************************)
EXTENDS Integers, Sequences, FiniteSets, TLC

VARIABLES
    dirs,            \* the directories that exist (paths)
    files,           \* the regular files that exist (paths)
    delete_after,    \* Cli.delete_after
    game_ids,        \* Cli.game_ids (set of u32)
    steamapps_roots, \* the sorted, deduplicated metadata roots
    manifests,       \* root -> manifest file name -> file state
    pc,              \* position in main / find_fg_clip_dirs
    stack,           \* find_fg_clip_dirs: stack
    out,             \* find_fg_clip_dirs: out
    findResult,      \* what find_fg_clip_dirs returned: "none", "Ok", "Err"
    clips,           \* main: clips, once filtered and sorted
    idx,             \* main: position of the for loop in clips (1-based)
    game_name,       \* main: game_name of the clip being converted
    resolved,        \* main: what resolve_app_name returned for that clip
    outputs,         \* output files written: file name -> "written" / "timed"
    exit_code,       \* process exit status, -1 while running
    unlisted,        \* history: directories whose listing failed in the scan
    remuxOk,         \* history: clip dirs whose remux exited with status zero
    io               \* history: the outcomes of the last step's read_dir (list),
                     \* remove_dir_all (rm) and ffmpeg / set_file_times (cmd)

vars == <<dirs, files, delete_after, game_ids, steamapps_roots, manifests, pc,
          stack, out, findResult, clips, idx, game_name, resolved, outputs,
          exit_code, unlisted, remuxOk, io>>

----------------------------------------------------------------------------
(* Names and their characters *)

Chars(s) ==
    CASE s = "fg_570_20250828_124021" ->
           <<"f","g","_","5","7","0","_","2","0","2","5","0","8","2","8","_","1","2","4","0","2","1">>
      [] s = "fg_0007_20250101_000000" ->
           <<"f","g","_","0","0","0","7","_","2","0","2","5","0","1","0","1","_","0","0","0","0","0","0">>
      [] s = "fg_0_20250828_124021" ->
           <<"f","g","_","0","_","2","0","2","5","0","8","2","8","_","1","2","4","0","2","1">>
      [] s = "fg_4294967295_20250828_124021" ->
           <<"f","g","_","4","2","9","4","9","6","7","2","9","5","_","2","0","2","5","0","8","2","8","_","1","2","4","0","2","1">>
      [] s = "fg_4294967296_20250828_124021" ->
           <<"f","g","_","4","2","9","4","9","6","7","2","9","6","_","2","0","2","5","0","8","2","8","_","1","2","4","0","2","1">>
      [] s = "fg_570_20251340_124021" ->
           <<"f","g","_","5","7","0","_","2","0","2","5","1","3","4","0","_","1","2","4","0","2","1">>
      [] s = "fg_570_20250828_1240" ->
           <<"f","g","_","5","7","0","_","2","0","2","5","0","8","2","8","_","1","2","4","0">>
      [] s = "video" ->
           <<"v","i","d","e","o">>
      [] s = "clip_42_20250101_100000" ->
           <<"c","l","i","p","_","4","2","_","2","0","2","5","0","1","0","1","_","1","0","0","0","0","0">>
      [] s = "zz" ->
           <<"z","z">>
      [] s = "session.mpd" ->
           <<"s","e","s","s","i","o","n",".","m","p","d">>
      [] s = "fg_570_19691231_235959" ->
           <<"f","g","_","5","7","0","_","1","9","6","9","1","2","3","1","_","2","3","5","9","5","9">>
      [] s = "liba" ->
           <<"l","i","b","a">>
      [] s = "libb" ->
           <<"l","i","b","b">>
      [] s = "libc" ->
           <<"l","i","b","c">>
      [] s = "steamapps" ->
           <<"s","t","e","a","m","a","p","p","s">>

Digits == <<"0","1","2","3","4","5","6","7","8","9">>

IsDigit(c) == \E k \in 1..10 : Digits[k] = c

DigitVal(c) == (CHOOSE k \in 1..10 : Digits[k] = c) - 1

AllDigits(cs) == \A k \in 1..Len(cs) : IsDigit(cs[k])

\* byte order of the characters the names use (ASCII)
CharCode(c) ==
    IF c = "." THEN 46
    ELSE IF IsDigit(c) THEN 48 + DigitVal(c)
    ELSE IF c = "_" THEN 95
    ELSE LET az == <<"a","b","c","d","e","f","g","h","i","j","k","l","m",
                     "n","o","p","q","r","s","t","u","v","w","x","y","z">>
         IN  96 + (CHOOSE k \in 1..26 : az[k] = c)

----------------------------------------------------------------------------
(* u32: a 32-bit unsigned integer as two 16-bit halves, hi * 2^16 + lo *)

Half == 65536

U32(h, l) == [hi |-> h, lo |-> l]

\* mutant: the identifier parsed as a 31-bit value (parse::<i32>)
CheckedMul10AddI32(acc, d) ==
    LET l == acc.lo * 10 + d
        h == acc.hi * 10 + (l \div Half)
    IN  IF 2 * h >= Half THEN [ok |-> FALSE, hi |-> 0, lo |-> 0]
        ELSE [ok |-> TRUE, hi |-> h, lo |-> l % Half]

\* acc.checked_mul(10)?.checked_add(d)?, as str::parse::<u32> folds a digit
CheckedMul10Add(acc, d) ==
    LET l == acc.lo * 10 + d
        h == acc.hi * 10 + (l \div Half)
    IN  IF h >= Half THEN [ok |-> FALSE, hi |-> 0, lo |-> 0]
        ELSE [ok |-> TRUE, hi |-> h, lo |-> l % Half]

RECURSIVE ParseFrom(_, _, _)
ParseFrom(cs, k, acc) ==
    IF ~acc.ok \/ k > Len(cs) THEN acc
    ELSE ParseFrom(cs, k + 1, CheckedMul10Add(acc, DigitVal(cs[k])))

\* str::parse::<u32>() on a run of decimal digits: Err on overflow
ParseU32(cs) ==
    IF Len(cs) = 0 THEN [ok |-> FALSE, hi |-> 0, lo |-> 0]
    ELSE ParseFrom(cs, 1, [ok |-> TRUE, hi |-> 0, lo |-> 0])

\* .parse().unwrap_or(0)
ParseOrZero(cs) ==
    LET r == ParseU32(cs)
    IN  IF r.ok THEN U32(r.hi, r.lo) ELSE U32(0, 0)

RECURSIVE ToDigits(_)
ToDigits(v) ==
    IF v.hi = 0 /\ v.lo = 0 THEN << >>
    ELSE LET t == (v.hi % 10) * Half + v.lo
         IN  Append(ToDigits(U32(v.hi \div 10, t \div 10)), Digits[(t % 10) + 1])

\* u32::to_string
U32ToString(v) == IF v.hi = 0 /\ v.lo = 0 THEN <<"0">> ELSE ToDigits(v)

----------------------------------------------------------------------------
(* The two directory-name grammars *)

\* ^<prefix>(\d+)_(\d{8})_(\d{6})$ on the characters cs; the digit classes
\* exclude "_", so the three groups are fixed by the length of cs.
MatchTokens(prefix, cs) ==
    LET n == Len(cs)
        p == Len(prefix)
    IN  IF /\ n >= p + 17
           /\ SubSeq(cs, 1, p) = prefix
           /\ AllDigits(SubSeq(cs, p + 1, n - 16))
           /\ cs[n - 15] = "_"
           /\ AllDigits(SubSeq(cs, n - 14, n - 7))
           /\ cs[n - 6] = "_"
           /\ AllDigits(SubSeq(cs, n - 5, n))
        THEN [ok |-> TRUE, g1 |-> SubSeq(cs, p + 1, n - 16),
              g2 |-> SubSeq(cs, n - 14, n - 7), g3 |-> SubSeq(cs, n - 5, n)]
        ELSE [ok |-> FALSE, g1 |-> << >>, g2 |-> << >>, g3 |-> << >>]

\* Regex::new(r"^fg_(\d+)_(\d{8})_(\d{6})$").captures(name)
FgCaptures(name) == MatchTokens(<<"f","g","_">>, Chars(name))

\* Regex::new(r"^clip_\d+_\d{8}_\d{6}$").is_match(name)
ClipIsMatch(name) == MatchTokens(<<"c","l","i","p","_">>, Chars(name)).ok

----------------------------------------------------------------------------
(* Paths *)

Parent(p) == SubSeq(p, 1, Len(p) - 1)

FileName(p) == p[Len(p)]

IsPrefix(a, b) == Len(a) <= Len(b) /\ SubSeq(b, 1, Len(a)) = a

\* fs::read_dir(d): the entries of d
Entries(d) == {p \in dirs \cup files : Len(p) = Len(d) + 1 /\ Parent(p) = d}

\* fs::remove_dir_all(d), when it succeeds; a call that fails is taken to
\* leave every directory in place
RemoveAll(S, d) == {p \in S : ~IsPrefix(d, p)}

RECURSIVE CharsLess(_, _, _)
\* byte-wise lexicographic order of two names (OsStr::cmp)
CharsLess(a, b, k) ==
    IF k > Len(a) THEN k <= Len(b)
    ELSE IF k > Len(b) THEN FALSE
    ELSE IF CharCode(a[k]) < CharCode(b[k]) THEN TRUE
    ELSE IF CharCode(b[k]) < CharCode(a[k]) THEN FALSE
    ELSE CharsLess(a, b, k + 1)

NameLess(m, n) == CharsLess(Chars(m), Chars(n), 1)

RECURSIVE PathLessFrom(_, _, _)
PathLessFrom(p, q, k) ==
    IF k > Len(p) THEN k <= Len(q)
    ELSE IF k > Len(q) THEN FALSE
    ELSE IF NameLess(p[k], q[k]) THEN TRUE
    ELSE IF NameLess(q[k], p[k]) THEN FALSE
    ELSE PathLessFrom(p, q, k + 1)

\* Path::cmp: component by component, each component by its bytes
PathLess(p, q) == PathLessFrom(p, q, 1)

----------------------------------------------------------------------------
(* find_fg_clip_dirs *)

Root == << >>

ClipDir(p, appid, date, time) ==
    [dir |-> p, appid |-> appid, date |-> date, time |-> time]

\* mutant: the `continue` after a match is missing, a recorded clip is
\* pushed for traversal as well
ScanEntryDescends(st, p) ==
    IF p \notin dirs THEN st
    ELSE LET caps == FgCaptures(FileName(p))
         IN  IF caps.ok /\ ParseOrZero(caps.g1) # U32(0, 0)
             THEN [stack |-> Append(st.stack, p),
                   out |-> Append(st.out, ClipDir(p, ParseOrZero(caps.g1), caps.g2, caps.g3))]
             ELSE IF caps.ok THEN st
             ELSE [st EXCEPT !.stack = Append(@, p)]

\* mutant: a match whose identifier parses to zero is handled as a
\* non-match and pushed for traversal
ScanEntryZeroPushed(st, p) ==
    IF p \notin dirs THEN st
    ELSE LET caps == FgCaptures(FileName(p))
         IN  IF caps.ok /\ ParseOrZero(caps.g1) # U32(0, 0)
             THEN [st EXCEPT !.out =
                      Append(@, ClipDir(p, ParseOrZero(caps.g1), caps.g2, caps.g3))]
             ELSE [st EXCEPT !.stack = Append(@, p)]

\* the body of the `for ent in entries.flatten()` loop for the entry p;
\* st is [stack, out]
ScanEntry(st, p) ==
    IF p \notin dirs THEN st
    ELSE LET caps == FgCaptures(FileName(p))
         IN  IF caps.ok
             THEN LET appid == ParseOrZero(caps.g1)
                  IN  IF appid # U32(0, 0)
                      THEN [st EXCEPT !.out =
                               Append(@, ClipDir(p, appid, caps.g2, caps.g3))]
                      ELSE st
             ELSE [st EXCEPT !.stack = Append(@, p)]

RECURSIVE ScanEntries(_, _, _)
\* the for loop over the entries, in the order read_dir yields them
ScanEntries(order, k, st) ==
    IF k > Len(order) THEN st
    ELSE ScanEntries(order, k + 1, ScanEntry(st, order[k]))

\* the orders in which read_dir may yield the entries E
Orders(E) ==
    {f \in [1..Cardinality(E) -> E] : \A a, b \in 1..Cardinality(E) : f[a] = f[b] => a = b}

Pop(st) == SubSeq(st, 1, Len(st) - 1)

NoIo == [list |-> "none", rm |-> "none", cmd |-> "none"]

\* one iteration of `while let Some(dir) = stack.pop()`, read_dir succeeding
ScanDirOk ==
    /\ pc = "scan"
    /\ stack # << >>
    /\ LET dir == stack[Len(stack)]
       IN  /\ dir \in dirs \cup {Root}
           /\ \E order \in Orders(Entries(dir)) :
                LET st == ScanEntries(order, 1, [stack |-> Pop(stack), out |-> out])
                IN  /\ stack' = st.stack
                    /\ out' = st.out
    /\ io' = [NoIo EXCEPT !.list = "ok"]
    /\ UNCHANGED <<dirs, files, delete_after, game_ids, steamapps_roots, manifests,
                   pc, findResult, clips, idx, game_name, resolved, outputs, exit_code,
                   unlisted, remuxOk>>

\* one iteration of the while loop, read_dir failing: `Err(_) => continue`
ScanDirErr ==
    /\ pc = "scan"
    /\ stack # << >>
    /\ unlisted' = unlisted \cup {stack[Len(stack)]}
    /\ stack' = Pop(stack)
    /\ io' = [NoIo EXCEPT !.list = "err"]
    /\ UNCHANGED <<dirs, files, delete_after, game_ids, steamapps_roots, manifests,
                   pc, out, findResult, clips, idx, game_name, resolved, outputs, exit_code,
                   remuxOk>>

\* the stack is empty: `Ok(out)`, the only return of find_fg_clip_dirs
FindReturn ==
    /\ pc = "scan"
    /\ stack = << >>
    /\ findResult' = "Ok"
    /\ pc' = "found"
    /\ io' = NoIo
    /\ UNCHANGED <<dirs, files, delete_after, game_ids, steamapps_roots, manifests,
                   stack, out, clips, idx, game_name, resolved, outputs, exit_code,
                   unlisted, remuxOk>>

----------------------------------------------------------------------------
(* resolve_app_name and parse_acf_name *)

Quote == "\""

\* Option<String>: None
NoName == [ok |-> FALSE, name |-> << >>]

IsSpace(c) == c \in {" ", "\t", "\n", "\r"}

RECURSIVE SkipSpace(_, _)
\* the position after the longest run of whitespace of t that starts at k
SkipSpace(t, k) == IF k <= Len(t) /\ IsSpace(t[k]) THEN SkipSpace(t, k + 1) ELSE k

RECURSIVE NextQuote(_, _)
\* the position of the first quote of t at or after k (Len(t) + 1 if none)
NextQuote(t, k) == IF k <= Len(t) /\ t[k] # Quote THEN NextQuote(t, k + 1) ELSE k

\* a match of "name"\s*"([^"]+)" that starts at position k of t
NameMatchAt(t, k) ==
    LET key == <<Quote, "n", "a", "m", "e", Quote>>
        q == SkipSpace(t, k + 6)
        e == NextQuote(t, q + 1)
    IN  IF /\ k + 5 <= Len(t)
           /\ SubSeq(t, k, k + 5) = key
           /\ q <= Len(t)
           /\ t[q] = Quote
           /\ e <= Len(t)
           /\ e > q + 1
        THEN [ok |-> TRUE, name |-> SubSeq(t, q + 1, e - 1)]
        ELSE NoName

RECURSIVE NameSearch(_, _)
NameSearch(t, k) ==
    IF k > Len(t) THEN NoName
    ELSE IF NameMatchAt(t, k).ok THEN NameMatchAt(t, k)
    ELSE NameSearch(t, k + 1)

\* Regex::new(r#""name"\s*"([^"]+)""#).captures(acf_text): the leftmost match
parse_acf_name(acf_text) == NameSearch(acf_text, 1)

\* format!("appmanifest_{}.acf", appid)
ManifestName(appid) ==
    <<"a","p","p","m","a","n","i","f","e","s","t","_">> \o U32ToString(appid)
        \o <<".","a","c","f">>

\* what one root contributes: p.is_file(), read_to_string(&p), parse_acf_name
RootName(root, manifest) ==
    IF /\ manifest \in DOMAIN manifests[root]
       /\ manifests[root][manifest].readable
    THEN parse_acf_name(manifests[root][manifest].text)
    ELSE NoName

RECURSIVE ResolveFromLast(_, _, _)
\* mutant: the loop does not return at the first name, the last root wins
ResolveFromLast(manifest, roots, k) ==
    IF k > Len(roots) THEN NoName
    ELSE IF ResolveFromLast(manifest, roots, k + 1).ok
         THEN ResolveFromLast(manifest, roots, k + 1)
         ELSE RootName(roots[k], manifest)

RECURSIVE ResolveFrom(_, _, _)
\* the `for root in steamapps_roots` loop, from the k-th root on
ResolveFrom(manifest, roots, k) ==
    IF k > Len(roots) THEN NoName
    ELSE IF RootName(roots[k], manifest).ok THEN RootName(roots[k], manifest)
    ELSE ResolveFrom(manifest, roots, k + 1)

resolve_app_name(appid, roots) == ResolveFrom(ManifestName(appid), roots, 1)

\* resolve_app_name(..).unwrap_or_else(|| clip.appid.to_string())
GameName(appid, roots) ==
    LET r == resolve_app_name(appid, roots)
    IN  IF r.ok THEN r.name ELSE U32ToString(appid)

RECURSIVE Sanitize(_)
\* sanitize_filename::sanitize: the characters illegal in a file name are
\* dropped (its rules for reserved names and for length are not modelled)
Sanitize(cs) ==
    IF cs = << >> THEN << >>
    ELSE IF Head(cs) \in {"/", "?", "<", ">", "\\", ":", "*", "|", Quote}
         THEN Sanitize(Tail(cs))
         ELSE <<Head(cs)>> \o Sanitize(Tail(cs))

\* format!("{}-{}-{}.mp4", sanitize(&game_name), clip.date, clip.time)
OutName(name, clip) ==
    Sanitize(name) \o <<"-">> \o clip.date \o <<"-">> \o clip.time \o <<".","m","p","4">>

----------------------------------------------------------------------------
(* to_systemtime *)

Num2(cs, k) == DigitVal(cs[k]) * 10 + DigitVal(cs[k + 1])

Year(date8) == Num2(date8, 1) * 100 + Num2(date8, 3)

IsLeap(y) == (y % 4 = 0 /\ y % 100 # 0) \/ y % 400 = 0

DaysIn(y, m) ==
    IF m = 2 THEN (IF IsLeap(y) THEN 29 ELSE 28)
    ELSE IF m \in {4, 6, 9, 11} THEN 30 ELSE 31

\* NaiveDate::parse_from_str(date8, "%Y%m%d").ok()
DateOk(date8) ==
    /\ Num2(date8, 5) \in 1..12
    /\ Num2(date8, 7) \in 1..DaysIn(Year(date8), Num2(date8, 5))

\* NaiveTime::parse_from_str(time6, "%H%M%S").ok(); %S admits a leap second
TimeOk(time6) ==
    /\ Num2(time6, 1) <= 23
    /\ Num2(time6, 3) <= 59
    /\ Num2(time6, 5) <= 60

\* "None" when a parse fails; "Panic" when the instant is before the epoch
\* (secs as u64 wraps and UNIX_EPOCH + Duration overflows); "Some" otherwise
to_systemtime(date8, time6) ==
    IF ~(DateOk(date8) /\ TimeOk(time6)) THEN "None"
    ELSE IF Year(date8) < 1970 THEN "Panic"
    ELSE "Some"

----------------------------------------------------------------------------
(* main, from the return of find_fg_clip_dirs on *)

\* clips.retain(|c| set.contains(&c.appid)), when game_ids is not empty
Retained(cs) ==
    IF game_ids = {} THEN cs ELSE SelectSeq(cs, LAMBDA c : c.appid \in game_ids)

RECURSIVE Insert(_, _)
Insert(sorted, c) ==
    IF sorted = << >> THEN <<c>>
    ELSE IF PathLess(c.dir, Head(sorted).dir) THEN <<c>> \o sorted
    ELSE <<Head(sorted)>> \o Insert(Tail(sorted), c)

RECURSIVE SortByDir(_)
\* clips.sort_by(|a, b| a.dir.cmp(&b.dir))
SortByDir(cs) ==
    IF cs = << >> THEN << >> ELSE Insert(SortByDir(SubSeq(cs, 1, Len(cs) - 1)), cs[Len(cs)])

clip == clips[idx]

Mpd(c) == c.dir \o <<"session.mpd">>

\* `if clips.is_empty()` right after the scan: exit(0)
ExitNoClips ==
    /\ pc = "found"
    /\ out = << >>
    /\ pc' = "exit"
    /\ exit_code' = 0
    /\ io' = NoIo
    /\ UNCHANGED <<dirs, files, delete_after, game_ids, steamapps_roots, manifests,
                   stack, out, findResult, clips, idx, game_name, resolved, outputs,
                   unlisted, remuxOk>>

\* nothing left after the --gameId filter: exit(0)
ExitFiltered ==
    /\ pc = "found"
    /\ out # << >>
    /\ Retained(out) = << >>
    /\ pc' = "exit"
    /\ exit_code' = 0
    /\ io' = NoIo
    /\ UNCHANGED <<dirs, files, delete_after, game_ids, steamapps_roots, manifests,
                   stack, out, findResult, clips, idx, game_name, resolved, outputs,
                   unlisted, remuxOk>>

\* the filter, then the sort, then the for loop is entered
SortClips ==
    /\ pc = "found"
    /\ Retained(out) # << >>
    /\ clips' = SortByDir(Retained(out))
    /\ idx' = 1
    /\ pc' = "loop"
    /\ io' = NoIo
    /\ UNCHANGED <<dirs, files, delete_after, game_ids, steamapps_roots, manifests,
                   stack, out, findResult, game_name, resolved, outputs, exit_code,
                   unlisted, remuxOk>>

\* `if !mpd.is_file()`: [skip], continue
ClipSkip ==
    /\ pc = "loop"
    /\ idx <= Len(clips)
    /\ Mpd(clip) \notin files
    /\ idx' = idx + 1
    /\ io' = NoIo
    /\ UNCHANGED <<dirs, files, delete_after, game_ids, steamapps_roots, manifests,
                   pc, stack, out, findResult, clips, game_name, resolved, outputs, exit_code,
                   unlisted, remuxOk>>

\* session.mpd is there: the name is resolved and ffmpeg is about to run
ClipBegin ==
    /\ pc = "loop"
    /\ idx <= Len(clips)
    /\ Mpd(clip) \in files
    /\ resolved' = resolve_app_name(clip.appid, steamapps_roots)
    /\ game_name' = GameName(clip.appid, steamapps_roots)
    /\ pc' = "remux"
    /\ io' = NoIo
    /\ UNCHANGED <<dirs, files, delete_after, game_ids, steamapps_roots, manifests,
                   stack, out, findResult, clips, idx, outputs, exit_code,
                   unlisted, remuxOk>>

\* `Ok(s)` with a non-zero status, or `Err(e)` launching ffmpeg: [fail]
RemuxFail ==
    /\ pc = "remux"
    /\ \E how \in {"status", "launch"} : io' = [NoIo EXCEPT !.cmd = how]
    /\ pc' = "loop"
    /\ idx' = idx + 1
    /\ UNCHANGED <<dirs, files, delete_after, game_ids, steamapps_roots, manifests,
                   stack, out, findResult, clips, game_name, resolved, outputs, exit_code,
                   unlisted, remuxOk>>

\* `Ok(s) if s.success()`: the output file is written
RemuxOk ==
    /\ pc = "remux"
    /\ LET f == OutName(game_name, clip)
       IN  outputs' = {o \in outputs : o.name # f} \cup {[name |-> f, mtime |-> <<"now">>]}
    /\ remuxOk' = remuxOk \cup {clip.dir}
    /\ pc' = "times"
    /\ io' = NoIo
    /\ UNCHANGED <<dirs, files, delete_after, game_ids, steamapps_roots, manifests,
                   stack, out, findResult, clips, idx, game_name, resolved, exit_code, unlisted>>

\* to_systemtime gives None: "[warn] could not parse start time", exit(2)
TimesUnparsable ==
    /\ pc = "times"
    /\ to_systemtime(clip.date, clip.time) = "None"
    /\ pc' = "exit"
    /\ exit_code' = 2
    /\ io' = NoIo
    /\ UNCHANGED <<dirs, files, delete_after, game_ids, steamapps_roots, manifests,
                   stack, out, findResult, clips, idx, game_name, resolved, outputs,
                   unlisted, remuxOk>>

\* to_systemtime panics on an instant before the epoch: the process aborts
TimesPanic ==
    /\ pc = "times"
    /\ to_systemtime(clip.date, clip.time) = "Panic"
    /\ pc' = "exit"
    /\ exit_code' = 101
    /\ io' = NoIo
    /\ UNCHANGED <<dirs, files, delete_after, game_ids, steamapps_roots, manifests,
                   stack, out, findResult, clips, idx, game_name, resolved, outputs,
                   unlisted, remuxOk>>

\* set_file_times fails: "[warn] failed to set file times", exit(2)
TimesSetErr ==
    /\ pc = "times"
    /\ to_systemtime(clip.date, clip.time) = "Some"
    /\ pc' = "exit"
    /\ exit_code' = 2
    /\ io' = [NoIo EXCEPT !.cmd = "times"]
    /\ UNCHANGED <<dirs, files, delete_after, game_ids, steamapps_roots, manifests,
                   stack, out, findResult, clips, idx, game_name, resolved, outputs,
                   unlisted, remuxOk>>

\* set_file_times succeeds
TimesOk ==
    /\ pc = "times"
    /\ to_systemtime(clip.date, clip.time) = "Some"
    /\ LET f == OutName(game_name, clip)
       IN  outputs' = {o \in outputs : o.name # f}
                        \cup {[name |-> f, mtime |-> clip.date \o clip.time]}
    /\ pc' = "delete"
    /\ io' = NoIo
    /\ UNCHANGED <<dirs, files, delete_after, game_ids, steamapps_roots, manifests,
                   stack, out, findResult, clips, idx, game_name, resolved, exit_code,
                   unlisted, remuxOk>>

\* `if cli.delete_after` is false
NoDelete ==
    /\ pc = "delete"
    /\ ~delete_after
    /\ pc' = "loop"
    /\ idx' = idx + 1
    /\ io' = NoIo
    /\ UNCHANGED <<dirs, files, delete_after, game_ids, steamapps_roots, manifests,
                   stack, out, findResult, clips, game_name, resolved, outputs, exit_code,
                   unlisted, remuxOk>>

\* mutant: the cascade is invoked whatever remove_dir_all returned
DeleteFailCascades ==
    /\ pc = "delete"
    /\ delete_after
    /\ pc' = "cascade"
    /\ io' = [NoIo EXCEPT !.rm = "err"]
    /\ UNCHANGED <<dirs, files, delete_after, game_ids, steamapps_roots, manifests,
                   stack, out, findResult, clips, idx, game_name, resolved, outputs,
                   exit_code, unlisted, remuxOk>>

\* fs::remove_dir_all(&clip.dir) fails: "[warn] delete failed"
DeleteFail ==
    /\ pc = "delete"
    /\ delete_after
    /\ pc' = "loop"
    /\ idx' = idx + 1
    /\ io' = [NoIo EXCEPT !.rm = "err"]
    /\ UNCHANGED <<dirs, files, delete_after, game_ids, steamapps_roots, manifests,
                   stack, out, findResult, clips, game_name, resolved, outputs, exit_code,
                   unlisted, remuxOk>>

\* fs::remove_dir_all(&clip.dir) succeeds: "[del] removed"
DeleteOk ==
    /\ pc = "delete"
    /\ delete_after
    /\ clip.dir \in dirs
    /\ dirs' = RemoveAll(dirs, clip.dir)
    /\ files' = RemoveAll(files, clip.dir)
    /\ pc' = "cascade"
    /\ io' = [NoIo EXCEPT !.rm = "ok"]
    /\ UNCHANGED <<delete_after, game_ids, steamapps_roots, manifests,
                   stack, out, findResult, clips, idx, game_name, resolved, outputs, exit_code,
                   unlisted, remuxOk>>

\* `for loop` over, println!("Done."): main returns
LoopDone ==
    /\ pc = "loop"
    /\ idx > Len(clips)
    /\ pc' = "exit"
    /\ exit_code' = 0
    /\ io' = NoIo
    /\ UNCHANGED <<dirs, files, delete_after, game_ids, steamapps_roots, manifests,
                   stack, out, findResult, clips, idx, game_name, resolved, outputs,
                   unlisted, remuxOk>>

----------------------------------------------------------------------------
(* maybe_remove_clip_grandparent *)

\* the parent of the clip is named exactly "video"
Gate1(c) == Parent(c.dir) # Root /\ FileName(Parent(c.dir)) = "video"

\* any_left: a directory entry was seen in the listing of video/; a listing
\* that fails leaves any_left false
AnyLeft(c, listed) == listed /\ \E e \in Entries(Parent(c.dir)) : e \in dirs

\* the grandparent has a name and it matches the clip_ grammar
Gate3(c) ==
    LET clip_parent == Parent(Parent(c.dir))
    IN  clip_parent # Root /\ ClipIsMatch(FileName(clip_parent))

\* the outcomes fs::read_dir(video_dir) can have
ListOutcomes(c) == IF Parent(c.dir) \in dirs THEN {TRUE, FALSE} ELSE {FALSE}

Advance ==
    /\ pc' = "loop"
    /\ idx' = idx + 1

\* the parent is not named "video": return
CascadeNotVideo ==
    /\ pc = "cascade"
    /\ ~Gate1(clip)
    /\ Advance
    /\ io' = NoIo
    /\ UNCHANGED <<dirs, files, delete_after, game_ids, steamapps_roots, manifests,
                   stack, out, findResult, clips, game_name, resolved, outputs, exit_code,
                   unlisted, remuxOk>>

\* `if any_left { return; }`
CascadeAnyLeft ==
    /\ pc = "cascade"
    /\ Gate1(clip)
    /\ \E listed \in ListOutcomes(clip) : AnyLeft(clip, listed)
    /\ Advance
    /\ io' = [NoIo EXCEPT !.list = "ok"]
    /\ UNCHANGED <<dirs, files, delete_after, game_ids, steamapps_roots, manifests,
                   stack, out, findResult, clips, game_name, resolved, outputs, exit_code,
                   unlisted, remuxOk>>

\* nothing seen in video/, and the grandparent's name does not match
CascadeNoMatch ==
    /\ pc = "cascade"
    /\ Gate1(clip)
    /\ \E listed \in ListOutcomes(clip) :
         /\ ~AnyLeft(clip, listed)
         /\ io' = [NoIo EXCEPT !.list = IF listed THEN "ok" ELSE "err"]
    /\ ~Gate3(clip)
    /\ Advance
    /\ UNCHANGED <<dirs, files, delete_after, game_ids, steamapps_roots, manifests,
                   stack, out, findResult, clips, game_name, resolved, outputs, exit_code,
                   unlisted, remuxOk>>

\* nothing seen in video/, the grandparent matches: fs::remove_dir_all(clip_parent)
CascadeRemove ==
    /\ pc = "cascade"
    /\ Gate1(clip)
    /\ Gate3(clip)
    /\ \E listed \in ListOutcomes(clip), removed \in BOOLEAN :
         /\ ~AnyLeft(clip, listed)
         /\ removed => Parent(Parent(clip.dir)) \in dirs
         /\ io' = [NoIo EXCEPT !.list = IF listed THEN "ok" ELSE "err",
                               !.rm = IF removed THEN "ok" ELSE "err"]
         /\ dirs' = IF removed THEN RemoveAll(dirs, Parent(Parent(clip.dir))) ELSE dirs
         /\ files' = IF removed THEN RemoveAll(files, Parent(Parent(clip.dir))) ELSE files
    /\ Advance
    /\ UNCHANGED <<delete_after, game_ids, steamapps_roots, manifests,
                   stack, out, findResult, clips, game_name, resolved, outputs, exit_code,
                   unlisted, remuxOk>>

----------------------------------------------------------------------------
(* The scanner alone, over the directory trees of ScanUniverse *)

MaxDirs == 4

FG570 == "fg_570_20250828_124021"
FG7 == "fg_0007_20250101_000000"
FG0 == "fg_0_20250828_124021"
FGMAX == "fg_4294967295_20250828_124021"
FGBIG == "fg_4294967296_20250828_124021"
FGBAD == "fg_570_20251340_124021"
NEAR == "fg_570_20250828_1240"
VIDEO == "video"
CLIP42 == "clip_42_20250101_100000"
ZZ == "zz"

ScanUniverse ==
    { <<FG570>>, <<FG7>>, <<FG0>>, <<FGMAX>>, <<FGBIG>>, <<NEAR>>, <<ZZ>>, <<CLIP42>>,
      <<FG570, FG7>>, <<FG570, ZZ>>, <<FG570, ZZ, FG7>>,
      <<FG0, FG570>>, <<FGBIG, FG7>>, <<NEAR, FG570>>,
      <<ZZ, FG570>>, <<ZZ, FG7>>, <<ZZ, ZZ>>, <<ZZ, ZZ, FGMAX>>,
      <<CLIP42, VIDEO>>, <<CLIP42, VIDEO, FG570>>, <<CLIP42, VIDEO, FG0>> }

ScanFileUniverse == { <<FG7>>, <<ZZ, FG570>>, <<ZZ, "session.mpd">> }

RECURSIVE Trees(_, _)
\* the prefix-closed sets of at most k paths of U
Trees(U, k) ==
    IF k = 0 THEN {{}}
    ELSE LET T == Trees(U, k - 1)
         IN  T \cup UNION {{S \cup {p} :
                                p \in {q \in U : Parent(q) = Root \/ Parent(q) \in S}} :
                              S \in T}

\* the sets of files of F that a tree of directories D can hold
FileSets(F, D) ==
    {X \in SUBSET F : \A f \in X : f \notin D /\ Parent(f) \in D \cup {Root}}

InitScan ==
    /\ dirs \in Trees(ScanUniverse, MaxDirs)
    /\ files \in FileSets(ScanFileUniverse, dirs)
    /\ delete_after = FALSE
    /\ game_ids = {}
    /\ steamapps_roots = << >>
    /\ manifests = << >>
    /\ pc = "scan"
    /\ stack = <<Root>>
    /\ out = << >>
    /\ findResult = "none"
    /\ clips = << >>
    /\ idx = 0
    /\ game_name = << >>
    /\ resolved = NoName
    /\ outputs = {}
    /\ exit_code = -1
    /\ unlisted = {}
    /\ remuxOk = {}
    /\ io = NoIo

NextScan == ScanDirOk \/ ScanDirErr \/ FindReturn

SpecScan == InitScan /\ [][NextScan]_vars

----------------------------------------------------------------------------
(* The whole program, over the directory trees of MainUniverse *)

MaxMainDirs == 5

FG1969 == "fg_570_19691231_235959"

MainUniverse ==
    { <<CLIP42>>, <<CLIP42, VIDEO>>, <<CLIP42, VIDEO, FG570>>, <<CLIP42, VIDEO, FG7>>,
      <<CLIP42, VIDEO, ZZ>>, <<CLIP42, ZZ>>, <<CLIP42, ZZ, FG7>>,
      <<VIDEO>>, <<VIDEO, FG570>>, <<ZZ>>, <<ZZ, FGBAD>>, <<ZZ, VIDEO>>,
      <<ZZ, VIDEO, FG570>>, <<FG1969>> }

MainFileUniverse ==
    {d \o <<"session.mpd">> : d \in {p \in MainUniverse : FgCaptures(FileName(p)).ok}}
        \cup { <<CLIP42, VIDEO, "session.mpd">> }

LibA == <<"liba", "steamapps">>

QuotedPair(k, v) == <<Quote>> \o k \o <<Quote, " ", Quote>> \o v \o <<Quote>>

\* "name" "EG"
AcfEG == QuotedPair(<<"n","a","m","e">>, <<"E","G">>)

\* the metadata roots of a run: none, or one library that names app 570
MainRoots ==
    { [roots |-> << >>, manifests |-> << >>],
      [roots |-> <<LibA>>,
       manifests |-> (LibA :> (ManifestName(U32(0, 570)) :>
                                 [readable |-> TRUE, text |-> AcfEG]))] }

Init ==
    /\ dirs \in Trees(MainUniverse, MaxMainDirs)
    /\ files \in FileSets(MainFileUniverse, dirs)
    /\ delete_after \in BOOLEAN
    /\ game_ids \in {{}, {U32(0, 570)}}
    /\ \E m \in MainRoots : steamapps_roots = m.roots /\ manifests = m.manifests
    /\ pc = "scan"
    /\ stack = <<Root>>
    /\ out = << >>
    /\ findResult = "none"
    /\ clips = << >>
    /\ idx = 0
    /\ game_name = << >>
    /\ resolved = NoName
    /\ outputs = {}
    /\ exit_code = -1
    /\ unlisted = {}
    /\ remuxOk = {}
    /\ io = NoIo

Next ==
    \/ ScanDirOk \/ ScanDirErr \/ FindReturn
    \/ ExitNoClips \/ ExitFiltered \/ SortClips
    \/ ClipSkip \/ ClipBegin \/ RemuxFail \/ RemuxOk
    \/ TimesUnparsable \/ TimesPanic \/ TimesSetErr \/ TimesOk
    \/ NoDelete \/ DeleteFail \/ DeleteOk
    \/ CascadeNotVideo \/ CascadeAnyLeft \/ CascadeNoMatch \/ CascadeRemove
    \/ LoopDone

Spec == Init /\ [][Next]_vars

----------------------------------------------------------------------------
(* The name resolution of one clip, over the metadata roots of RootPaths *)

MaxRoots == 2

LibB == <<"libb", "steamapps">>

LibC == <<"libc", "steamapps">>

RootPaths == {LibA, LibB, LibC}

\* "name" "Q"
AcfQ == QuotedPair(<<"n","a","m","e">>, <<"Q">>)

\* "nam" "x": no name key
AcfNoName == QuotedPair(<<"n","a","m">>, <<"x">>)

\* "name" """name" "C": the first name key has an empty value
AcfSecond == <<Quote,"n","a","m","e",Quote," ",Quote,Quote>>
                 \o QuotedPair(<<"n","a","m","e">>, <<"C">>)

FileStates ==
    {[readable |-> FALSE, text |-> << >>]}
        \cup {[readable |-> TRUE, text |-> t] : t \in {AcfEG, AcfQ, AcfNoName, AcfSecond}}

\* the clip record the scanner makes of a directory named `name` under the root
ClipOf(name) ==
    LET caps == FgCaptures(name)
    IN  ClipDir(<<name>>, ParseOrZero(caps.g1), caps.g2, caps.g3)

ResolveClips == {ClipOf(FG570), ClipOf(FGMAX)}

\* the contents a root can have: manifests of some of the applications
RootContents ==
    UNION {[N -> FileStates] : N \in SUBSET {ManifestName(c.appid) : c \in ResolveClips}}

\* roots.sort(); roots.dedup(): strictly increasing
SortedRoots ==
    UNION {{r \in [1..n -> RootPaths] : \A a, b \in 1..n : a < b => PathLess(r[a], r[b])} :
           n \in 0..MaxRoots}

InitResolve ==
    /\ steamapps_roots \in SortedRoots
    /\ manifests \in [{steamapps_roots[k] : k \in 1..Len(steamapps_roots)} -> RootContents]
    /\ \E c \in ResolveClips :
         /\ clips = <<c>>
         /\ out = <<c>>
         /\ dirs = {c.dir}
         /\ files = {Mpd(c)}
    /\ delete_after = FALSE
    /\ game_ids = {}
    /\ pc = "loop"
    /\ stack = << >>
    /\ findResult = "Ok"
    /\ idx = 1
    /\ game_name = << >>
    /\ resolved = NoName
    /\ outputs = {}
    /\ exit_code = -1
    /\ unlisted = {}
    /\ remuxOk = {}
    /\ io = NoIo

NextResolve == ClipBegin

SpecResolve == InitResolve /\ [][NextResolve]_vars

----------------------------------------------------------------------------
(* Properties of the scanner (SpecScan) *)

RECURSIVE StripZeros(_)
\* a run of digits without its leading zeros
StripZeros(cs) == IF Len(cs) > 1 /\ cs[1] = "0" THEN StripZeros(Tail(cs)) ELSE cs

U32MaxDigits == <<"4","2","9","4","9","6","7","2","9","5">>

RECURSIVE DigitsLeq(_, _, _)
\* a <= b for two runs of digits of the same length
DigitsLeq(a, b, k) ==
    IF k > Len(a) THEN TRUE
    ELSE IF DigitVal(a[k]) < DigitVal(b[k]) THEN TRUE
    ELSE IF DigitVal(a[k]) > DigitVal(b[k]) THEN FALSE
    ELSE DigitsLeq(a, b, k + 1)

\* the number the digits g write is at most 2^32 - 1
FitsU32(g) ==
    LET t == StripZeros(g)
    IN  Len(t) < 10 \/ (Len(t) = 10 /\ DigitsLeq(t, U32MaxDigits, 1))

NonZeroDigits(g) == \E k \in 1..Len(g) : g[k] # "0"

Records == {out[k] : k \in 1..Len(out)}

RecordsOf(d) == {k \in 1..Len(out) : out[k].dir = d}

\* the directories strictly between the root and d
Ancestors(d) == {SubSeq(d, 1, n) : n \in 1..(Len(d) - 1)}

\* d is reached through listed directories whose names do not match
ReachedThroughNonClips(d) ==
    /\ Root \notin unlisted
    /\ \A a \in Ancestors(d) : a \notin unlisted /\ ~FgCaptures(FileName(a)).ok

\* the record of d carries the three digit groups of d's name
RecordCarriesName(r) ==
    LET caps == FgCaptures(FileName(r.dir))
    IN  /\ U32ToString(r.appid) = StripZeros(caps.g1)
        /\ r.date = caps.g2
        /\ r.time = caps.g3

\* C1: the scanner never pushes, lists or records anything at or below a
\* directory it recorded as a clip: no pending directory lies at or below a
\* record, and no record lies below another record.
C1_ClipsAreLeaves ==
    /\ \A r \in Records : \A k \in 1..Len(stack) : ~IsPrefix(r.dir, stack[k])
    /\ \A r, q \in Records : r # q => ~IsPrefix(r.dir, q.dir)

\* a scan that ended, with every listing successful, over a tree where a
\* recorded clip holds a directory that itself has a valid clip name
C1_Witness ==
    /\ pc = "found"
    /\ unlisted = {}
    /\ \E r \in Records : \E d \in dirs :
         /\ IsPrefix(r.dir, d)
         /\ d # r.dir
         /\ FgCaptures(FileName(d)).ok
         /\ ParseOrZero(FgCaptures(FileName(d)).g1) # U32(0, 0)

\* C2 as stated: every directory with a matching name and a nonzero
\* identifier of any size, reached through listed non-clip directories, has
\* exactly one record, which carries the digit groups of the name.
C2_AnyIdentifier ==
    pc = "found" =>
        \A d \in dirs :
            LET caps == FgCaptures(FileName(d))
            IN  (caps.ok /\ NonZeroDigits(caps.g1) /\ ReachedThroughNonClips(d))
                    => /\ Cardinality(RecordsOf(d)) = 1
                       /\ \A k \in RecordsOf(d) : RecordCarriesName(out[k])

\* C2 amended: the same, for the identifiers that fit in 32 bits.
C2_U32Identifier ==
    pc = "found" =>
        \A d \in dirs :
            LET caps == FgCaptures(FileName(d))
            IN  (/\ caps.ok
                 /\ NonZeroDigits(caps.g1)
                 /\ FitsU32(caps.g1)
                 /\ ReachedThroughNonClips(d))
                    => /\ Cardinality(RecordsOf(d)) = 1
                       /\ \A k \in RecordsOf(d) : RecordCarriesName(out[k])

\* a scan that ended and recorded both the clip whose identifier is
\* 2^32 - 1, two levels down, and a clip whose identifier has leading zeros
C2_Witness ==
    /\ pc = "found"
    /\ \E r \in Records : FileName(r.dir) = FGMAX /\ Len(r.dir) = 3
    /\ \E r \in Records : FileName(r.dir) = FG7

\* the identifier of a matching name parses to zero: it writes zero, or a
\* number that u32 cannot hold
ZeroIdName(n) ==
    LET caps == FgCaptures(n)
    IN  caps.ok /\ (~NonZeroDigits(caps.g1) \/ ~FitsU32(caps.g1))

\* C4 as stated: the scan fails exactly when the root cannot be listed, and
\* an unlistable directory below the root loses only what lies below it.
C4_FailsIffRootUnlistable ==
    pc = "found" =>
        /\ (findResult = "Err") <=> (Root \in unlisted)
        /\ \A d \in dirs :
             LET caps == FgCaptures(FileName(d))
             IN  (/\ caps.ok
                  /\ NonZeroDigits(caps.g1)
                  /\ FitsU32(caps.g1)
                  /\ ReachedThroughNonClips(d)) => RecordsOf(d) # {}

\* d lies below a directory whose name is a zero-identifier match
BelowZeroId(d) == \E a \in Ancestors(d) : ZeroIdName(FileName(a))

\* C7 as stated: a zero-identifier match gives no record and is traversed
\* like a non-match, so a valid clip below it (reached through listed
\* directories that are zero-identifier matches or non-matches) is recorded.
C7_ZeroIdTraversed ==
    pc = "found" =>
        /\ \A r \in Records : ~ZeroIdName(FileName(r.dir))
        /\ \A d \in dirs :
             LET caps == FgCaptures(FileName(d))
             IN  (/\ caps.ok
                  /\ NonZeroDigits(caps.g1)
                  /\ FitsU32(caps.g1)
                  /\ Root \notin unlisted
                  /\ \A a \in Ancestors(d) :
                       /\ a \notin unlisted
                       /\ (FgCaptures(FileName(a)).ok => ZeroIdName(FileName(a))))
                    => RecordsOf(d) # {}

\* C7 amended: a zero-identifier match gives no record and is not traversed
\* either: it is never pushed, and nothing below it is pushed or recorded.
C7_ZeroIdTerminal ==
    /\ \A r \in Records : ~ZeroIdName(FileName(r.dir)) /\ ~BelowZeroId(r.dir)
    /\ \A k \in 1..Len(stack) :
         stack[k] # Root => ~ZeroIdName(FileName(stack[k])) /\ ~BelowZeroId(stack[k])

\* a scan that ended, with every listing successful, over a tree where a
\* valid clip directory lies in a directory named fg_0_..., and is not recorded
C7_Witness ==
    /\ pc = "found"
    /\ unlisted = {}
    /\ <<FG0, FG570>> \in dirs
    /\ RecordsOf(<<FG0, FG570>>) = {}

----------------------------------------------------------------------------
(* Properties of the name resolution (SpecResolve) *)

\* the roots, by position, that supply a name for the manifest m
Suppliers(m) ==
    {k \in 1..Len(steamapps_roots) : RootName(steamapps_roots[k], m).ok}

\* C6: once the name of a clip is resolved, resolve_app_name has returned
\* the name of the first root, in list order, that supplies one, and the
\* display name is that name; when no root supplies one it has returned
\* nothing and the display name is the identifier in decimal.
C6_FirstMatchWins ==
    pc = "remux" =>
        LET m == ManifestName(clip.appid)
        IN  IF Suppliers(m) # {}
            THEN LET first == CHOOSE k \in Suppliers(m) : \A j \in Suppliers(m) : k <= j
                 IN  /\ resolved = RootName(steamapps_roots[first], m)
                     /\ game_name = resolved.name
            ELSE /\ resolved = NoName
                 /\ game_name = StripZeros(FgCaptures(FileName(clip.dir)).g1)

\* a name was resolved with two roots that both supply one, and not the same
C6_Witness ==
    /\ pc = "remux"
    /\ Len(steamapps_roots) = 2
    /\ Suppliers(ManifestName(clip.appid)) = {1, 2}
    /\ RootName(steamapps_roots[1], ManifestName(clip.appid))
         # RootName(steamapps_roots[2], ManifestName(clip.appid))

----------------------------------------------------------------------------
(* Properties of the conversion loop and of the cleanup (Spec) *)

\* the output file of the current clip carries the clip's start time
Timed ==
    \E o \in outputs :
        o.name = OutName(game_name, clip) /\ o.mtime = clip.date \o clip.time

\* the three gates, on the filesystem as it is
GatesPass(c) ==
    /\ Gate1(c)
    /\ ~\E e \in Entries(Parent(c.dir)) : e \in dirs
    /\ Gate3(c)

\* C3 as stated: the cleanup calls for the removal of the grandparent
\* exactly when the three gates pass, and otherwise leaves the filesystem as
\* it is.
C3_RemovesIffGates ==
    [][pc = "cascade" =>
          /\ (io'.rm # "none") <=> GatesPass(clip)
          /\ ~GatesPass(clip) => (dirs' = dirs /\ files' = files)]_vars

\* C5 as stated: a run that entered the loop and did not panic ends with
\* status 0, every clip of the list processed.
C5_ErrorsStayInClip ==
    (pc = "exit" /\ clips # << >> /\ exit_code # 101)
        => (exit_code = 0 /\ idx > Len(clips))

\* C8 as stated: when the parent cannot be listed the cleanup removes
\* nothing, and it removes the grandparent only after a listing of the
\* parent that succeeded and showed no directory.
C8_ListingRequired ==
    [][pc = "cascade" =>
          /\ io'.list = "err" => dirs' = dirs
          /\ dirs' # dirs =>
               (io'.list = "ok" /\ ~\E e \in Entries(Parent(clip.dir)) : e \in dirs)]_vars

C10_NoDataLoss ==
    [][(pc = "cascade" /\ io'.list # "err") =>
          /\ \A j \in (idx + 1)..Len(clips) :
               clips[j].dir \in dirs => clips[j].dir \in dirs'
          /\ \A r \in Records :
               (r.dir \in dirs /\ r.dir \notin dirs') => r.dir \in remuxOk]_vars

====
